---- MODULE Spec2Model ----
(***************************************************************************)
(* Model of src/app.py: a Flask backend with three POST endpoints that     *)
(* forward work to the Sambanova chat-completion API.                      *)
(*                                                                         *)
(*   /generate-article    generate_article()                               *)
(*   /generate-questions  generate_questions()                             *)
(*   /evaluate-answer     evaluate_answer(), extract_text_from_image(),    *)
(*                        evaluate_using_sambanova()                       *)
(*                                                                         *)
(* A handler is a sequence of steps, one per interaction with the outside  *)
(* world (the upload folder, the upstream API); the pure code between two  *)
(* interactions belongs to the step it follows.  Text is a sequence of     *)
(* characters (topics, articles, extracted text) or of tokens (the model   *)
(* replies that the handlers search for a JSON object).                    *)
(***************************************************************************)
EXTENDS Integers, Sequences, FiniteSets, TLC

(* ------------------------------ bounds --------------------------------- *)
\* longest character string of a request field or an upstream content
MaxLen == 3
\* longest model reply, in tokens
MaxTokens == 4
\* number of request slots of the server
NumReqs == 2

Reqs == 1..NumReqs

(* --------------------------- program constants -------------------------- *)
ALLOWED_EXTENSIONS == {"png", "jpg", "jpeg", "gif", "pdf"}
\* the number of questions asked of each kind
NumQuestions == 5
\* the size from which the short list alone is split in two
SplitThreshold == 10

(* ------------------------------- strings ------------------------------- *)
Chars == {" ", "a"}

SeqsUpTo(S, n) == UNION {[1..k -> S] : k \in 0..n}

Strings == SeqsUpTo(Chars, MaxLen)

IsSpace(c) == c = " "

RECURSIVE lstrip(_)
lstrip(s) == IF s # <<>> /\ IsSpace(Head(s)) THEN lstrip(Tail(s)) ELSE s

RECURSIVE rstrip(_)
rstrip(s) ==
    IF s # <<>> /\ IsSpace(s[Len(s)]) THEN rstrip(SubSeq(s, 1, Len(s) - 1)) ELSE s

\* mutant of strip: trailing whitespace is kept
strip_left_only(s) == lstrip(s)

\* str.strip()
strip(s) == rstrip(lstrip(s))

(* ------------------- values of a JSON or form field -------------------- *)
\* k: "absent" (no such key), "null", "nonstr" (a truthy value that is not a
\* string, such as 5 or [1]), "str" (the string s)
Absent == [k |-> "absent", s |-> <<>>]
Null == [k |-> "null", s |-> <<>>]
NonStr == [k |-> "nonstr", s |-> <<>>]
Str(s) == [k |-> "str", s |-> s]

\* Python truthiness of a field value (None for an absent key)
Truthy(v) == v.k = "nonstr" \/ (v.k = "str" /\ v.s # <<>>)

(* ------------------------------ uploads -------------------------------- *)
\* A file name: dir is "" or "../", ext is "" when the name has no dot.
EmptyName == [dir |-> "", stem |-> "", ext |-> ""]
FileNames ==
    { EmptyName,
      [dir |-> "", stem |-> "a", ext |-> "png"],
      [dir |-> "../", stem |-> "a", ext |-> "png"],
      [dir |-> "", stem |-> "b", ext |-> "PNG"],
      [dir |-> "", stem |-> "c", ext |-> "exe"],
      [dir |-> "", stem |-> "d", ext |-> ""] }

lower(e) == IF e = "PNG" THEN "png" ELSE e

allowed_file(fn) == fn.ext # "" /\ lower(fn.ext) \in ALLOWED_EXTENSIONS

\* werkzeug's secure_filename: path separators and ".." are dropped
secure_filename(fn) == [fn EXCEPT !.dir = ""]

\* the parts of a multipart request; bool(FileStorage) is bool(filename)
NoFile == [present |-> FALSE, name |-> EmptyName, bytes |-> 0]
Upload(fn, b) == [present |-> TRUE, name |-> fn, bytes |-> b]
FileTruthy(f) == f.present /\ f.name # EmptyName

\* base64.b64encode(...).decode('utf-8')
b64encode(b) == <<"b64", b>>

\* the paths of the upload folder
Paths == {secure_filename(fn) : fn \in FileNames}

(* --------------------------- upstream replies -------------------------- *)
\* What requests.post() gives: transport "fail" is a RequestException; env is
\* the shape of the body: "ok" (choices[0].message.content is the string
\* content), "notjson", "nochoices", "emptychoices", "nomessage", "nocontent"
\* (a key or index is missing), "contentnull" (content is not a string),
\* "notobject" (the body is a JSON array).
Statuses == {200, 204, 400, 401, 503}

\* a subscript raises KeyError or IndexError ("notjson": response.json()
\* raises JSONDecodeError, the json module being the standard one)
EnvMissing == {"nochoices", "emptychoices", "nomessage", "nocontent"}
\* a subscript or .strip() raises TypeError or AttributeError
EnvWrongType == {"contentnull", "notobject"}

Reply(tr, st, env, content) ==
    [transport |-> tr, status |-> st, env |-> env, content |-> content]

\* the replies whose content is one of Contents
Replies(Contents) ==
    {Reply("fail", 0, "none", <<>>)}
    \cup {Reply("ok", st, "none", <<>>) : st \in Statuses \ {200}}
    \cup {Reply("ok", 200, env, <<>>) :
                env \in {"notjson"} \cup EnvMissing \cup EnvWrongType}
    \cup {Reply("ok", 200, "ok", c) : c \in Contents}

\* how far the handler's reading of a reply gets
ReplyClass(rep) ==
    IF rep.transport = "fail" THEN "transport"
    ELSE IF rep.status # 200 THEN "status"
    ELSE IF rep.env = "notjson" THEN "notjson"
    ELSE IF rep.env \in EnvMissing THEN "missing"
    ELSE IF rep.env \in EnvWrongType THEN "wrongtype"
    ELSE "ok"

(* ------------------------------- tokens -------------------------------- *)
\* A model reply is a sequence of tokens: "lb" and "rb" are the braces, "kv"
\* is a JSON member  "key": value, "line" a run of ten numbered lines
\* (1. ... to 10. ...) outside any JSON object, "ft" the free text
\* Score: n/10.
\* The value of a member: a list of n items, the integer n, a string, null.
ListVal(n) == [k |-> "list", n |-> n]
IntVal(n) == [k |-> "int", n |-> n]
StrVal == [k |-> "str", n |-> 0]
NullVal == [k |-> "null", n |-> 0]

LB == [t |-> "lb", key |-> "", val |-> NullVal]
RB == [t |-> "rb", key |-> "", val |-> NullVal]
LINE == [t |-> "line", key |-> "", val |-> ListVal(SplitThreshold)]
FT(n) == [t |-> "ft", key |-> "", val |-> IntVal(n)]
KV(key, val) == [t |-> "kv", key |-> key, val |-> val]

\* the lengths of the lists a reply carries
ShortLens == {NumQuestions - 1, NumQuestions, SplitThreshold, SplitThreshold + 1}
DescLens == {NumQuestions - 1, NumQuestions, SplitThreshold}

QuestionTokens ==
    {LB, RB, LINE, KV("short_questions", NullVal)}
    \cup {KV("short_questions", ListVal(n)) : n \in ShortLens}
    \cup {KV("descriptive_questions", ListVal(n)) : n \in DescLens}

EvaluationTokens ==
    {LB, RB, FT(8), KV("evaluation", StrVal)}
    \cup {KV("score", v) : v \in {IntVal(8), IntVal(11), StrVal, NullVal}}

QuestionTexts == SeqsUpTo(QuestionTokens, MaxTokens)
EvaluationTexts == SeqsUpTo(EvaluationTokens, MaxTokens)

\* the items of the list under key in a reply: item i of that list
Items(key, n) == [i \in 1..n |-> <<key, i>>]

(* ----------------- re.search(r'\{.*\}', text, re.DOTALL) --------------- *)
NoMatch == <<>>

\* the first "{" and, the pattern being greedy, the last "}" after it
json_search(text) ==
    LET opens == {i \in 1..Len(text) : text[i].t = "lb"}
    IN  IF opens = {} THEN NoMatch
        ELSE LET i == CHOOSE x \in opens : \A y \in opens : x <= y
                 closes == {j \in i + 1..Len(text) : text[j].t = "rb"}
             IN  IF closes = {} THEN NoMatch
                 ELSE SubSeq(text, i, CHOOSE x \in closes : \A y \in closes : x >= y)

(* ------------------------------ json.loads ----------------------------- *)
\* group is "{" ... "}"; it is a JSON object when only members lie between
\* the braces
json_valid(group) == \A i \in 2..Len(group) - 1 : group[i].t = "kv"

\* dict.get(key) of the parsed object: the last member of that key wins;
\* Missing when there is none
Missing == [k |-> "missing", n |-> 0]

json_get(group, key) ==
    LET at == {i \in 2..Len(group) - 1 : group[i].key = key}
    IN  IF at = {} THEN Missing
        ELSE group[CHOOSE x \in at : \A y \in at : x >= y].val

(* ------------------------------ responses ------------------------------ *)
\* (jsonify(...), status): kind is "error", "article", "questions" or
\* "evaluation"; the fields of the other kinds keep their defaults
NoResponse ==
    [status |-> 0, kind |-> "none", article |-> <<>>, short |-> <<>>,
     desc |-> <<>>, evaluation |-> "", score |-> Missing]
Error(st) == [NoResponse EXCEPT !.status = st, !.kind = "error"]
ArticleOk(a) == [NoResponse EXCEPT !.status = 200, !.kind = "article", !.article = a]
QuestionsOk(sq, dq) ==
    [NoResponse EXCEPT !.status = 200, !.kind = "questions", !.short = sq, !.desc = dq]
EvaluationOk(e, sc) ==
    [NoResponse EXCEPT !.status = 200, !.kind = "evaluation",
                       !.evaluation = e, !.score = sc]

(* -------------- generate_article: reading the upstream reply ----------- *)
article_response(rep) ==
    IF ReplyClass(rep) \in {"transport", "status", "notjson", "missing"} THEN Error(502)
    ELSE IF ReplyClass(rep) = "wrongtype" THEN Error(500)
    ELSE ArticleOk(strip(rep.content))

(* ------------- generate_questions: extraction of the lists ------------- *)
\* questions_json.get(key, []): the list under key, [] when there is none
IsList(v) == v.k = "list"
ListOf(key, v) == IF IsList(v) THEN Items(key, v.n) ELSE <<>>

\* short_questions[:5] and short_questions[5:]
FirstN(q, n) == SubSeq(q, 1, IF Len(q) < n THEN Len(q) ELSE n)
AfterN(q, n) == SubSeq(q, n + 1, Len(q))

\* mutant of normalize: either list is split when the other is empty, into
\* five and five
normalize_either_five_five(sq, dq) ==
    IF dq = <<>> /\ Len(sq) >= SplitThreshold
    THEN [short |-> FirstN(sq, NumQuestions),
          desc |-> FirstN(AfterN(sq, NumQuestions), NumQuestions)]
    ELSE IF sq = <<>> /\ Len(dq) >= SplitThreshold
    THEN [short |-> FirstN(dq, NumQuestions),
          desc |-> FirstN(AfterN(dq, NumQuestions), NumQuestions)]
    ELSE [short |-> sq, desc |-> dq]

\* the two lists after the split of an oversized short list
normalize(sq, dq) ==
    IF dq = <<>> /\ Len(sq) >= SplitThreshold
    THEN [short |-> FirstN(sq, NumQuestions), desc |-> AfterN(sq, NumQuestions)]
    ELSE [short |-> sq, desc |-> dq]

\* mutant of enough: only the short list is counted
enough_short_only(n) == Len(n.short) >= NumQuestions

\* the check "both lists have 5 questions"
enough(n) == ~(Len(n.short) < NumQuestions \/ Len(n.desc) < NumQuestions)

\* mutant of extract_questions: a reply without a JSON object that is ten
\* numbered lines gives lines 1-5 and 6-10
extract_questions_numbered_lines(text) ==
    LET group == json_search(text)
        vs == json_get(group, "short_questions")
        vd == json_get(group, "descriptive_questions")
        sq == ListOf("short_questions", vs)
        dq == ListOf("descriptive_questions", vd)
    IN  IF group = NoMatch /\ text = <<LINE>>
        THEN QuestionsOk(FirstN(Items("line", LINE.val.n), NumQuestions),
                         AfterN(Items("line", LINE.val.n), NumQuestions))
        ELSE IF group = NoMatch THEN Error(502)
        ELSE IF ~json_valid(group) THEN Error(502)
        ELSE IF vs.k = "null" THEN Error(500)
        ELSE IF vd.k = "null" /\ Len(sq) >= NumQuestions /\ Len(sq) < SplitThreshold
             THEN Error(500)
        ELSE IF ~enough(normalize(sq, dq)) THEN Error(502)
        ELSE QuestionsOk(normalize(sq, dq).short, normalize(sq, dq).desc)

\* from re.search to the response, for a reply whose content is text
extract_questions(text) ==
    LET group == json_search(text)
        vs == json_get(group, "short_questions")
        vd == json_get(group, "descriptive_questions")
        sq == ListOf("short_questions", vs)
        dq == ListOf("descriptive_questions", vd)
    IN  IF group = NoMatch THEN Error(502)
        ELSE IF ~json_valid(group) THEN Error(502)
        \* len(None) raises TypeError, where the code comes to evaluate it
        ELSE IF vs.k = "null" THEN Error(500)
        ELSE IF vd.k = "null" /\ Len(sq) >= NumQuestions /\ Len(sq) < SplitThreshold
             THEN Error(500)
        ELSE IF ~enough(normalize(sq, dq)) THEN Error(502)
        ELSE QuestionsOk(normalize(sq, dq).short, normalize(sq, dq).desc)

questions_response(rep) ==
    IF ReplyClass(rep) = "transport" THEN Error(502)
    ELSE IF ReplyClass(rep) = "status" THEN Error(rep.status)
    ELSE IF ReplyClass(rep) = "notjson" THEN Error(502)
    ELSE IF ReplyClass(rep) \in {"missing", "wrongtype"} THEN Error(500)
    ELSE extract_questions(rep.content)

(* --------- evaluate_using_sambanova: evaluation and score -------------- *)
\* mutant of score_regex: the free text  Score: n/10  is matched as well
score_regex_free_text(text) ==
    LET at == {i \in 1..Len(text) :
                  \/ text[i].t = "kv" /\ text[i].key = "score" /\ text[i].val.k = "int"
                  \/ text[i].t = "ft"}
    IN  IF at = {} THEN Missing
        ELSE text[CHOOSE x \in at : \A y \in at : x <= y].val

\* re.search(r'"score"\s*:\s*(\d+)', text): the first member "score" whose
\* value starts with digits; Missing when there is none
score_regex(text) ==
    LET at == {i \in 1..Len(text) :
                  text[i].t = "kv" /\ text[i].key = "score" /\ text[i].val.k = "int"}
    IN  IF at = {} THEN Missing
        ELSE text[CHOOSE x \in at : \A y \in at : x <= y].val

\* the result of the extraction: ok is FALSE when an exception is raised
Raised == [ok |-> FALSE, evaluation |-> "", score |-> Missing]
Extracted(e, sc) == [ok |-> TRUE, evaluation |-> e, score |-> sc]

\* evaluation_json.get('evaluation', ''): "E" stands for the feedback string
evaluation_of(group) ==
    IF json_get(group, "evaluation") = Missing THEN "" ELSE "E"

\* from re.search to the returned pair, for a reply whose content is text
extract_score(text) ==
    LET group == json_search(text)
        score == json_get(group, "score")
    IN  IF group = NoMatch THEN Raised
        ELSE IF ~json_valid(group) THEN Raised
        \* score is None: the key is missing or its value is null
        ELSE IF score.k \in {"missing", "null"}
        THEN IF score_regex(text) = Missing THEN Raised
             ELSE Extracted(evaluation_of(group), score_regex(text))
        ELSE Extracted(evaluation_of(group), score)

\* evaluate_using_sambanova, then lines 530-539 of evaluate_answer
evaluation_response(rep) ==
    IF ReplyClass(rep) = "ok" /\ extract_score(rep.content).ok
    THEN EvaluationOk(extract_score(rep.content).evaluation,
                      extract_score(rep.content).score)
    ELSE Error(500)

(* ------------------------------ requests ------------------------------- *)
\* ep: the endpoint.  ctype: "none" (no Content-Type header), "json",
\* "multipart", "other".  body: the JSON body, "none" (empty or not JSON),
\* "null", "empty" ({}), "obj" (an object with keys).  topic, text: the values
\* of "topic" and "syllabus_text".  imgkey: the JSON object has a key
\* "syllabus_image".  file, qfile, afile: the uploaded parts syllabus_image,
\* question_image, answer_image.
NoRequest ==
    [ep |-> "none", ctype |-> "none", body |-> "none", topic |-> Absent,
     text |-> Absent, imgkey |-> FALSE, file |-> NoFile, qfile |-> NoFile,
     afile |-> NoFile]

\* the values of "topic"; those of "syllabus_text" in a JSON body and in a form
SyllabusTexts == {<<>>, <<" ">>, <<" ", "a">>}
TopicValues == {Absent, Null, NonStr} \cup {Str(s) : s \in Strings}
FieldValues == {Absent, Null, NonStr} \cup {Str(s) : s \in SyllabusTexts}
FormValues == {Absent} \cup {Str(s) : s \in SyllabusTexts}
Uploads(b) == {NoFile} \cup {Upload(fn, b) : fn \in FileNames}

ArticleRequests ==
    {[NoRequest EXCEPT !.ep = "article", !.ctype = c, !.body = b] :
        c \in {"json", "other"}, b \in {"none", "null", "empty"}}
    \cup {[NoRequest EXCEPT !.ep = "article", !.ctype = "json", !.body = "obj",
                            !.topic = t] : t \in TopicValues}

QuestionRequests ==
    {[NoRequest EXCEPT !.ep = "questions", !.ctype = c] : c \in {"none", "other"}}
    \cup {[NoRequest EXCEPT !.ep = "questions", !.ctype = "multipart",
                            !.text = t, !.file = f] :
             t \in FormValues, f \in Uploads(1)}
    \cup {[NoRequest EXCEPT !.ep = "questions", !.ctype = "json", !.body = b] :
             b \in {"none", "null", "empty"}}
    \cup {[NoRequest EXCEPT !.ep = "questions", !.ctype = "json", !.body = "obj",
                            !.text = t, !.imgkey = k] :
             t \in FieldValues, k \in BOOLEAN}

EvaluateRequests ==
    {[NoRequest EXCEPT !.ep = "evaluate", !.ctype = "multipart",
                       !.qfile = q, !.afile = a] :
        q \in Uploads(1), a \in Uploads(2)}

Requests == ArticleRequests \cup QuestionRequests \cup EvaluateRequests

\* request.get_json(): "raise" (BadRequest on a body that is not JSON, or
\* UnsupportedMediaType on another Content-Type with a werkzeug that raises
\* it), "none" (None on another Content-Type with a werkzeug that returns
\* it), "value" (the parsed body)
get_json(rq) ==
    IF rq.ctype # "json" THEN {"none", "raise"}
    ELSE IF rq.body = "none" THEN {"raise"} ELSE {"value"}

\* the outcome of a validation: the status to answer with, or 0 to go on
\* with text (the stripped topic or syllabus text) on the path "text" or
\* "image"
Reject(st) == [status |-> st, path |-> "none", text |-> <<>>]
Accept(path, text) == [status |-> 0, path |-> path, text |-> text]

\* generate_article, lines 121-129, get_json() having given o
article_validate(rq, o) ==
    IF o = "raise" THEN Reject(500)
    ELSE IF o = "none" \/ rq.body \in {"null", "empty"} THEN Reject(400)
    ELSE IF rq.topic.k = "absent" THEN Reject(400)
    \* data['topic'].strip() raises AttributeError
    ELSE IF rq.topic.k \in {"null", "nonstr"} THEN Reject(500)
    ELSE IF strip(rq.topic.s) = <<>> THEN Reject(400)
    ELSE Accept("text", strip(rq.topic.s))

\* mutant of questions_validate_multipart: text and image together are
\* taken as an image
questions_validate_multipart_no_both(rq) ==
    IF FileTruthy(rq.file)
    THEN IF allowed_file(rq.file.name) THEN Accept("image", <<>>) ELSE Reject(400)
    ELSE IF Truthy(rq.text)
    THEN IF strip(rq.text.s) = <<>> THEN Reject(400)
         ELSE Accept("text", strip(rq.text.s))
    ELSE Reject(400)

\* generate_questions, lines 251-262, then 281-283 and 341-344
questions_validate_multipart(rq) ==
    IF FileTruthy(rq.file) /\ Truthy(rq.text) THEN Reject(400)
    ELSE IF FileTruthy(rq.file)
    THEN IF allowed_file(rq.file.name) THEN Accept("image", <<>>) ELSE Reject(400)
    ELSE IF Truthy(rq.text)
    THEN IF strip(rq.text.s) = <<>> THEN Reject(400)
         ELSE Accept("text", strip(rq.text.s))
    ELSE Reject(400)

\* generate_questions, lines 265-277, then 342-344, get_json() having given o
questions_validate_json(rq, o) ==
    IF o = "raise" THEN Reject(500)
    ELSE IF o = "none" \/ rq.body \in {"null", "empty"} THEN Reject(400)
    ELSE IF rq.imgkey THEN Reject(400)
    ELSE IF ~Truthy(rq.text) THEN Reject(400)
    \* syllabus_text_field.strip() raises AttributeError
    ELSE IF rq.text.k = "nonstr" THEN Reject(500)
    ELSE IF strip(rq.text.s) = <<>> THEN Reject(400)
    ELSE Accept("text", strip(rq.text.s))

\* generate_questions, lines 247-279 and the checks before the first effect
questions_validate(rq, o) ==
    \* 'multipart/form-data' in None raises TypeError
    IF rq.ctype = "none" THEN Reject(500)
    ELSE IF rq.ctype = "multipart" THEN questions_validate_multipart(rq)
    ELSE IF rq.ctype = "json" THEN questions_validate_json(rq, o)
    ELSE Reject(400)

\* evaluate_answer, lines 486-497
evaluate_validate(rq) ==
    IF ~rq.qfile.present \/ ~rq.afile.present THEN Reject(400)
    ELSE IF ~(FileTruthy(rq.qfile) /\ allowed_file(rq.qfile.name)) THEN Reject(400)
    ELSE IF ~(FileTruthy(rq.afile) /\ allowed_file(rq.afile.name)) THEN Reject(400)
    ELSE Accept("image", <<>>)

(* -------------------------------- state -------------------------------- *)
VARIABLES
    req,     \* req[r]: the request that slot r handles
    pc,      \* pc[r]: where the handler of r stands
    loc,     \* loc[r]: the local variables of the handler
    resp,    \* resp[r]: the response returned, NoResponse before
    disk,    \* disk[p]: the bytes of the file at path p of the upload folder, 0 when there is none
    calls,   \* calls[r]: the upstream calls issued for r, in order
    fsops    \* fsops[r]: the files written and removed for r, in order

vars == <<req, pc, loc, resp, disk, calls, fsops>>

NoEncoded == <<"none", 0>>

\* file_path/encoded_image (question_file_path/encoded_question_image) and
\* answer_file_path/encoded_answer_image; text: topic, syllabus_text or
\* question_text; text2: answer_text; failed: an exception of
\* extract_text_from_image is pending while the finally clause runs;
\* response: what the last requests.post() gave
NoReply == Reply("none", 0, "none", <<>>)

NoLocals ==
    [path |-> EmptyName, encoded |-> NoEncoded, path2 |-> EmptyName,
     encoded2 |-> NoEncoded, text |-> <<>>, text2 |-> <<>>, failed |-> FALSE,
     response |-> NoReply]

\* the text an image-extraction call returns
ImageTexts == {<<" ", "a">>}

Call(kind, image, rep) == [kind |-> kind, image |-> image, result |-> ReplyClass(rep)]
FsOp(op, path) == [op |-> op, path |-> path]

Respond(r, response) ==
    /\ resp' = [resp EXCEPT ![r] = response]
    /\ pc' = [pc EXCEPT ![r] = "done"]

Goto(r, label) ==
    /\ pc' = [pc EXCEPT ![r] = label]
    /\ resp' = resp

Init ==
    /\ req \in {q \in [Reqs -> Requests \cup {NoRequest}] :
                    q[1] # NoRequest /\ \A r \in Reqs \ {1} : q[r] = NoRequest}
    /\ pc = [r \in Reqs |-> IF r = 1 THEN "start" ELSE "idle"]
    /\ loc = [r \in Reqs |-> NoLocals]
    /\ resp = [r \in Reqs |-> NoResponse]
    /\ disk = [p \in Paths |-> 0]
    /\ calls = [r \in Reqs |-> <<>>]
    /\ fsops = [r \in Reqs |-> <<>>]

(* -------------------------- /generate-article -------------------------- *)
\* lines 120-129
GenerateArticleValidate(r) ==
    /\ pc[r] = "start" /\ req[r].ep = "article"
    /\ \E o \in get_json(req[r]) :
          LET v == article_validate(req[r], o)
          IN  IF v.status # 0
              THEN Respond(r, Error(v.status)) /\ loc' = loc
              ELSE Goto(r, "ga_call") /\ loc' = [loc EXCEPT ![r].text = v.text]
    /\ UNCHANGED <<req, disk, calls, fsops>>

\* lines 131-186
GenerateArticleCall(r) ==
    /\ pc[r] = "ga_call"
    /\ \E rep \in Replies(Strings) :
          /\ calls' = [calls EXCEPT ![r] = Append(@, Call("article", NoEncoded, rep))]
          /\ loc' = [loc EXCEPT ![r].response = rep]
          /\ Respond(r, article_response(rep))
    /\ UNCHANGED <<req, disk, fsops>>

(* ------------------------- /generate-questions ------------------------- *)
\* lines 242-285 and 341-344
GenerateQuestionsValidate(r) ==
    /\ pc[r] = "start" /\ req[r].ep = "questions"
    /\ \E o \in get_json(req[r]) :
          LET v == questions_validate(req[r], o)
          IN  IF v.status # 0
              THEN Respond(r, Error(v.status)) /\ loc' = loc
              ELSE IF v.path = "image"
              THEN /\ Goto(r, "gq_save")
                   /\ loc' = [loc EXCEPT ![r].path = secure_filename(req[r].file.name)]
              ELSE Goto(r, "gq_call") /\ loc' = [loc EXCEPT ![r].text = v.text]
    /\ UNCHANGED <<req, disk, calls, fsops>>

\* line 286: file.save(file_path)
GenerateQuestionsSave(r) ==
    /\ pc[r] = "gq_save"
    /\ disk' = [disk EXCEPT ![loc[r].path] = req[r].file.bytes]
    /\ fsops' = [fsops EXCEPT ![r] = Append(@, FsOp("save", loc[r].path))]
    /\ Goto(r, "gq_read")
    /\ UNCHANGED <<req, loc, calls>>

\* lines 287-288: open() raises FileNotFoundError when the file is gone
GenerateQuestionsRead(r) ==
    /\ pc[r] = "gq_read"
    /\ IF disk[loc[r].path] = 0
       THEN Respond(r, Error(500)) /\ loc' = loc
       ELSE /\ Goto(r, "gq_image")
            /\ loc' = [loc EXCEPT ![r].encoded = b64encode(disk[loc[r].path])]
    /\ UNCHANGED <<req, disk, calls, fsops>>

\* lines 290-338: the image-text-extraction call
GenerateQuestionsImageCall(r) ==
    /\ pc[r] = "gq_image"
    /\ \E rep \in Replies(ImageTexts) :
          /\ calls' = [calls EXCEPT ![r] = Append(@, Call("image", loc[r].encoded, rep))]
          /\ IF ReplyClass(rep) = "ok"
             THEN /\ Goto(r, "gq_remove")
                  /\ loc' = [loc EXCEPT ![r].text = strip(rep.content),
                                         ![r].response = rep]
             ELSE /\ loc' = [loc EXCEPT ![r].response = rep]
                  /\ Respond(r, Error(
                        IF ReplyClass(rep) = "status" THEN rep.status
                        ELSE IF ReplyClass(rep) = "wrongtype" THEN 500
                        ELSE 502))
    /\ UNCHANGED <<req, disk, fsops>>

\* line 339: os.remove(file_path) raises FileNotFoundError when the file is gone
GenerateQuestionsRemove(r) ==
    /\ pc[r] = "gq_remove"
    /\ IF disk[loc[r].path] = 0
       THEN Respond(r, Error(500)) /\ UNCHANGED <<disk, fsops>>
       ELSE /\ Goto(r, "gq_call")
            /\ disk' = [disk EXCEPT ![loc[r].path] = 0]
            /\ fsops' = [fsops EXCEPT ![r] = Append(@, FsOp("remove", loc[r].path))]
    /\ UNCHANGED <<req, loc, calls>>

\* lines 345-438: the question-generation call and the extraction
GenerateQuestionsCallWith(r, Texts) ==
    /\ pc[r] = "gq_call"
    /\ \E rep \in Replies(Texts) :
          /\ calls' = [calls EXCEPT ![r] = Append(@, Call("questions", NoEncoded, rep))]
          /\ loc' = [loc EXCEPT ![r].response = rep]
          /\ Respond(r, questions_response(rep))
    /\ UNCHANGED <<req, disk, fsops>>

GenerateQuestionsCall(r) == GenerateQuestionsCallWith(r, QuestionTexts)

(* --------------------------- /evaluate-answer -------------------------- *)
\* lines 484-499
EvaluateAnswerValidate(r) ==
    /\ pc[r] = "start" /\ req[r].ep = "evaluate"
    /\ LET v == evaluate_validate(req[r])
       IN  IF v.status # 0
           THEN Respond(r, Error(v.status)) /\ loc' = loc
           ELSE /\ Goto(r, "ea_save_q")
                /\ loc' = [loc EXCEPT ![r].path = secure_filename(req[r].qfile.name)]
    /\ UNCHANGED <<req, disk, calls, fsops>>

\* line 501: question_image.save(question_file_path)
EvaluateAnswerSaveQuestion(r) ==
    /\ pc[r] = "ea_save_q"
    /\ disk' = [disk EXCEPT ![loc[r].path] = req[r].qfile.bytes]
    /\ fsops' = [fsops EXCEPT ![r] = Append(@, FsOp("save", loc[r].path))]
    /\ Goto(r, "ea_read_q")
    /\ UNCHANGED <<req, loc, calls>>

\* lines 502-508: the exception of open() is answered with 500
EvaluateAnswerReadQuestion(r) ==
    /\ pc[r] = "ea_read_q"
    /\ IF disk[loc[r].path] = 0
       THEN Respond(r, Error(500)) /\ loc' = loc
       ELSE /\ Goto(r, "ea_save_a")
            /\ loc' = [loc EXCEPT ![r].encoded = b64encode(disk[loc[r].path]),
                                   ![r].path2 = secure_filename(req[r].afile.name)]
    /\ UNCHANGED <<req, disk, calls, fsops>>

\* line 510: answer_image.save(answer_file_path)
EvaluateAnswerSaveAnswer(r) ==
    /\ pc[r] = "ea_save_a"
    /\ disk' = [disk EXCEPT ![loc[r].path2] = req[r].afile.bytes]
    /\ fsops' = [fsops EXCEPT ![r] = Append(@, FsOp("save", loc[r].path2))]
    /\ Goto(r, "ea_read_a")
    /\ UNCHANGED <<req, loc, calls>>

\* lines 511-515
EvaluateAnswerReadAnswer(r) ==
    /\ pc[r] = "ea_read_a"
    /\ IF disk[loc[r].path2] = 0
       THEN Respond(r, Error(500)) /\ loc' = loc
       ELSE /\ Goto(r, "ea_extract_q")
            /\ loc' = [loc EXCEPT ![r].encoded2 = b64encode(disk[loc[r].path2])]
    /\ UNCHANGED <<req, disk, calls, fsops>>

\* line 518: extract_text_from_image(encoded_question_image, ...), lines
\* 545-600; every failure is raised as an Exception
EvaluateAnswerExtractQuestion(r) ==
    /\ pc[r] = "ea_extract_q"
    /\ \E rep \in Replies(ImageTexts) :
          /\ calls' = [calls EXCEPT ![r] = Append(@, Call("image", loc[r].encoded, rep))]
          /\ IF ReplyClass(rep) = "ok"
             THEN /\ Goto(r, "ea_extract_a")
                  /\ loc' = [loc EXCEPT ![r].text = strip(rep.content),
                                         ![r].response = rep]
             ELSE /\ Goto(r, "ea_remove_q")
                  /\ loc' = [loc EXCEPT ![r].failed = TRUE, ![r].response = rep]
    /\ UNCHANGED <<req, disk, fsops>>

\* line 519: extract_text_from_image(encoded_answer_image, ...)
EvaluateAnswerExtractAnswer(r) ==
    /\ pc[r] = "ea_extract_a"
    /\ \E rep \in Replies(ImageTexts) :
          /\ calls' = [calls EXCEPT ![r] = Append(@, Call("image", loc[r].encoded2, rep))]
          /\ Goto(r, "ea_remove_q")
          /\ IF ReplyClass(rep) = "ok"
             THEN loc' = [loc EXCEPT ![r].text2 = strip(rep.content),
                                     ![r].response = rep]
             ELSE loc' = [loc EXCEPT ![r].failed = TRUE, ![r].response = rep]
    /\ UNCHANGED <<req, disk, fsops>>

\* mutant of AfterCleanup: the evaluation is attempted after a failed
\* extraction as well
AfterCleanupIgnoringFailure(r) == Goto(r, "ea_evaluate")

\* after the finally clause: line 522 when an exception is pending, else on
\* to the evaluation
AfterCleanup(r) ==
    IF loc[r].failed THEN Respond(r, Error(502)) ELSE Goto(r, "ea_evaluate")

\* line 525: os.remove(question_file_path); its exception is logged and
\* skips line 526
EvaluateAnswerRemoveQuestion(r) ==
    /\ pc[r] = "ea_remove_q"
    /\ IF disk[loc[r].path] = 0
       THEN AfterCleanup(r) /\ UNCHANGED <<disk, fsops>>
       ELSE /\ Goto(r, "ea_remove_a")
            /\ disk' = [disk EXCEPT ![loc[r].path] = 0]
            /\ fsops' = [fsops EXCEPT ![r] = Append(@, FsOp("remove", loc[r].path))]
    /\ UNCHANGED <<req, loc, calls>>

\* line 526: os.remove(answer_file_path); its exception is logged
EvaluateAnswerRemoveAnswer(r) ==
    /\ pc[r] = "ea_remove_a"
    /\ AfterCleanup(r)
    /\ IF disk[loc[r].path2] = 0
       THEN UNCHANGED <<disk, fsops>>
       ELSE /\ disk' = [disk EXCEPT ![loc[r].path2] = 0]
            /\ fsops' = [fsops EXCEPT ![r] = Append(@, FsOp("remove", loc[r].path2))]
    /\ UNCHANGED <<req, loc, calls>>

\* lines 530-539: evaluate_using_sambanova(question_text, answer_text),
\* lines 602-695
EvaluateAnswerEvaluateWith(r, Texts) ==
    /\ pc[r] = "ea_evaluate"
    /\ \E rep \in Replies(Texts) :
          /\ calls' = [calls EXCEPT ![r] = Append(@, Call("evaluation", NoEncoded, rep))]
          /\ loc' = [loc EXCEPT ![r].response = rep]
          /\ Respond(r, evaluation_response(rep))
    /\ UNCHANGED <<req, disk, fsops>>

EvaluateAnswerEvaluate(r) == EvaluateAnswerEvaluateWith(r, EvaluationTexts)

(* ---------------------------- specification ---------------------------- *)
Next ==
    \E r \in Reqs :
        \/ GenerateArticleValidate(r)
        \/ GenerateArticleCall(r)
        \/ GenerateQuestionsValidate(r)
        \/ GenerateQuestionsSave(r)
        \/ GenerateQuestionsRead(r)
        \/ GenerateQuestionsImageCall(r)
        \/ GenerateQuestionsRemove(r)
        \/ GenerateQuestionsCall(r)
        \/ EvaluateAnswerValidate(r)
        \/ EvaluateAnswerSaveQuestion(r)
        \/ EvaluateAnswerReadQuestion(r)
        \/ EvaluateAnswerSaveAnswer(r)
        \/ EvaluateAnswerReadAnswer(r)
        \/ EvaluateAnswerExtractQuestion(r)
        \/ EvaluateAnswerExtractAnswer(r)
        \/ EvaluateAnswerRemoveQuestion(r)
        \/ EvaluateAnswerRemoveAnswer(r)
        \/ EvaluateAnswerEvaluate(r)

Spec == Init /\ [][Next]_vars

(* ------------------------- concurrent uploads -------------------------- *)
\* The server handles requests in threads that share UPLOAD_FOLDER: every
\* slot holds a file-upload request and the steps of the handlers interleave.
\* The content of the files of slot r is its own: 2r-1 for the syllabus or
\* question image, 2r for the answer image.
QuestionBytes(r) == 2 * r - 1
AnswerBytes(r) == 2 * r

\* the names the concurrent uploads carry: two that secure_filename() sends
\* to the same path for the syllabus or question image, one for the answer
\* image
ConcNames ==
    { [dir |-> "", stem |-> "a", ext |-> "png"],
      [dir |-> "../", stem |-> "a", ext |-> "png"] }
ConcAnswerName == [dir |-> "", stem |-> "b", ext |-> "PNG"]

ConcRequests(r) ==
    {[NoRequest EXCEPT !.ep = "questions", !.ctype = "multipart",
                       !.file = Upload(fn, QuestionBytes(r))] : fn \in ConcNames}
    \cup {[NoRequest EXCEPT !.ep = "evaluate", !.ctype = "multipart",
                            !.qfile = Upload(fn, QuestionBytes(r)),
                            !.afile = Upload(ConcAnswerName, AnswerBytes(r))] :
             fn \in ConcNames}

\* the model's reply to the last call of a concurrent request
ConcQuestionTexts ==
    { <<LB, KV("short_questions", ListVal(NumQuestions)),
        KV("descriptive_questions", ListVal(NumQuestions)), RB>> }
ConcEvaluationTexts ==
    { <<LB, KV("evaluation", StrVal), KV("score", IntVal(8)), RB>> }

InitConc ==
    /\ req \in {q \in [Reqs -> UNION {ConcRequests(r) : r \in Reqs}] :
                    \A r \in Reqs : q[r] \in ConcRequests(r)}
    /\ pc = [r \in Reqs |-> "start"]
    /\ loc = [r \in Reqs |-> NoLocals]
    /\ resp = [r \in Reqs |-> NoResponse]
    /\ disk = [p \in Paths |-> 0]
    /\ calls = [r \in Reqs |-> <<>>]
    /\ fsops = [r \in Reqs |-> <<>>]

NextConc ==
    \E r \in Reqs :
        \/ GenerateQuestionsValidate(r)
        \/ GenerateQuestionsSave(r)
        \/ GenerateQuestionsRead(r)
        \/ GenerateQuestionsImageCall(r)
        \/ GenerateQuestionsRemove(r)
        \/ GenerateQuestionsCallWith(r, ConcQuestionTexts)
        \/ EvaluateAnswerValidate(r)
        \/ EvaluateAnswerSaveQuestion(r)
        \/ EvaluateAnswerReadQuestion(r)
        \/ EvaluateAnswerSaveAnswer(r)
        \/ EvaluateAnswerReadAnswer(r)
        \/ EvaluateAnswerExtractQuestion(r)
        \/ EvaluateAnswerExtractAnswer(r)
        \/ EvaluateAnswerRemoveQuestion(r)
        \/ EvaluateAnswerRemoveAnswer(r)
        \/ EvaluateAnswerEvaluateWith(r, ConcEvaluationTexts)

SpecConc == InitConc /\ [][NextConc]_vars

(* ============================== properties ============================= *)
Done(r) == pc[r] = "done"
Endpoint(r, ep) == req[r].ep = ep

\* the last upstream call of r was of this kind
LastCall(r, kind) == calls[r] # <<>> /\ calls[r][Len(calls[r])].kind = kind

\* the model reply that the last call of r returned, when that call gave
\* status 200 and a well-formed envelope
ReplyText(r) == loc[r].response.content
ReplyRead(r) == ReplyClass(loc[r].response) = "ok"

(* ---- C1 ---- *)
\* C1: every response of POST /generate-questions has status 200, 400, 502
\* or 500, and a non-200 upstream status of either call is answered 502.
C1_QuestionsStatusSet ==
    \A r \in Reqs :
        Done(r) /\ Endpoint(r, "questions") =>
            /\ resp[r].status \in {200, 400, 502, 500}
            /\ (calls[r] # <<>> /\ calls[r][Len(calls[r])].result = "status"
                    => resp[r].status = 502)

(* ---- C2 ---- *)
\* C2: in POST /evaluate-answer, once both texts are extracted, a failure of
\* the evaluation step is answered 502, never 500.
C2_EvaluationFailureIs502 ==
    \A r \in Reqs :
        Done(r) /\ Endpoint(r, "evaluate") /\ LastCall(r, "evaluation")
            /\ resp[r].status # 200
            => resp[r].status = 502

(* ---- C3 ---- *)
\* C3: in POST /generate-article with a valid topic, every upstream problem
\* (transport, non-200 status, unreadable choices[0].message.content) is
\* answered 502.
C3_ArticleUpstreamProblemIs502 ==
    \A r \in Reqs :
        Done(r) /\ Endpoint(r, "article") /\ LastCall(r, "article") /\ ~ReplyRead(r)
            => resp[r].status = 502

(* ---- C4 ---- *)
\* C4: every 200 response of POST /generate-questions holds exactly 5 short
\* questions and exactly 5 descriptive questions.
C4_ExactlyFiveEach ==
    \A r \in Reqs :
        Done(r) /\ Endpoint(r, "questions") /\ resp[r].status = 200
            => /\ resp[r].kind = "questions"
               /\ Len(resp[r].short) = NumQuestions
               /\ Len(resp[r].desc) = NumQuestions

(* ---- C5 ---- *)
\* C5: every 200 response of POST /evaluate-answer carries a score that is an
\* integer between 0 and 10.
C5_ScoreInRange ==
    \A r \in Reqs :
        Done(r) /\ Endpoint(r, "evaluate") /\ resp[r].status = 200
            => /\ resp[r].score.k = "int"
               /\ resp[r].score.n \in 0..10

(* ---- C6 ---- *)
\* a request carries both inputs: in a form, a syllabus_image file with a
\* file name and a non-empty syllabus_text; in a JSON body, both keys
SuppliesBoth(rq) ==
    \/ rq.ctype = "multipart" /\ rq.file.present /\ rq.file.name # EmptyName
          /\ rq.text.k = "str" /\ rq.text.s # <<>>
    \/ rq.ctype = "json" /\ rq.body = "obj" /\ rq.imgkey /\ rq.text.k # "absent"

\* C6: a POST /generate-questions request that supplies both syllabus_text
\* and syllabus_image is answered 400, and at no point of its handling is an
\* upstream call issued or a file written.
C6_BothInputsRejected ==
    \A r \in Reqs :
        Endpoint(r, "questions") /\ SuppliesBoth(req[r]) =>
            /\ calls[r] = <<>>
            /\ fsops[r] = <<>>
            /\ disk = [p \in Paths |-> 0]
            /\ pc[r] \in {"start", "done"}
            /\ (Done(r) => resp[r].status = 400)

C6_Witness ==
    \E r \in Reqs :
        /\ Done(r) /\ Endpoint(r, "questions") /\ req[r].ctype = "multipart"
        /\ SuppliesBoth(req[r]) /\ allowed_file(req[r].file.name)
        /\ resp[r].status = 400

(* ---- C7 ---- *)
Blank(v) == v.k = "str" /\ \A i \in 1..Len(v.s) : v.s[i] = " "

\* the required input of the request is missing or empty
MissingInput(rq) ==
    \/ /\ rq.ep = "article"
       /\ rq.body \in {"none", "null", "empty"} \/ rq.topic.k = "absent" \/ Blank(rq.topic)
    \/ /\ rq.ep = "questions"
       /\ \/ rq.ctype \in {"none", "other"}
          \/ /\ rq.ctype = "multipart"
             /\ ~(rq.file.present /\ rq.file.name # EmptyName)
             /\ rq.text.k = "absent" \/ Blank(rq.text)
          \/ /\ rq.ctype = "json"
             /\ ~rq.imgkey
             /\ rq.body \in {"none", "null", "empty"} \/ rq.text.k = "absent"
                   \/ Blank(rq.text)
    \/ /\ rq.ep = "evaluate"
       /\ \/ ~rq.qfile.present \/ ~rq.afile.present
          \/ lower(rq.qfile.name.ext) \notin ALLOWED_EXTENSIONS
          \/ lower(rq.afile.name.ext) \notin ALLOWED_EXTENSIONS

\* C7: a request whose required input is missing or empty is answered 400 in
\* every endpoint, never 500.
C7_MissingInputIs400 ==
    \A r \in Reqs : Done(r) /\ MissingInput(req[r]) => resp[r].status = 400

(* ---- C8 ---- *)
Spaces(n) == [i \in 1..n |-> " "]

\* a is c without its leading and trailing whitespace
IsTrimOf(a, c) ==
    /\ \E i, j \in 0..Len(c) : c = Spaces(i) \o a \o Spaces(j)
    /\ a # <<>> => a[1] # " " /\ a[Len(a)] # " "

ValidTopic(rq) ==
    /\ rq.ep = "article" /\ rq.ctype = "json" /\ rq.body = "obj"
    /\ rq.topic.k = "str" /\ ~Blank(rq.topic)

\* C8: for a POST /generate-article request whose topic is a string that is
\* not blank, the upstream call is issued, and when it returns 200 with a
\* well-formed envelope the response is 200 with article equal to the
\* upstream content without its leading and trailing whitespace.
C8_ArticleIsTrimmedContent ==
    \A r \in Reqs :
        Done(r) /\ ValidTopic(req[r]) =>
            /\ LastCall(r, "article")
            /\ ReplyRead(r) =>
                  /\ resp[r].status = 200
                  /\ resp[r].kind = "article"
                  /\ IsTrimOf(resp[r].article, ReplyText(r))

C8_Witness ==
    \E r \in Reqs :
        /\ Done(r) /\ ValidTopic(req[r]) /\ ReplyRead(r)
        /\ resp[r].status = 200
        /\ ReplyText(r) = <<" ", "a", " ">>
        /\ resp[r].article = <<"a">>

(* ---- C9 ---- *)
\* the question-generation call of r returned a reply in which a JSON object
\* was found and parsed, its two lists being lists (or missing)
QuestionsParsed(r) ==
    /\ Done(r) /\ Endpoint(r, "questions") /\ LastCall(r, "questions") /\ ReplyRead(r)
    /\ json_search(ReplyText(r)) # NoMatch
    /\ json_valid(json_search(ReplyText(r)))
    /\ json_get(json_search(ReplyText(r)), "short_questions").k \in {"list", "missing"}
    /\ json_get(json_search(ReplyText(r)), "descriptive_questions").k \in {"list", "missing"}

ParsedShort(r) ==
    ListOf("short_questions", json_get(json_search(ReplyText(r)), "short_questions"))
ParsedDesc(r) ==
    ListOf("descriptive_questions",
           json_get(json_search(ReplyText(r)), "descriptive_questions"))

EvaluationRead(r) ==
    Done(r) /\ Endpoint(r, "evaluate") /\ LastCall(r, "evaluation") /\ ReplyRead(r)

\* the reply holds  "score": n  with an integer n, or  Score: n/10
HasScoreMember(text) ==
    \E i \in 1..Len(text) :
        text[i].t = "kv" /\ text[i].key = "score" /\ text[i].val.k = "int"
HasFreeTextScore(text) == \E i \in 1..Len(text) : text[i].t = "ft"

\* the first integer n of a  "score": n  in the reply
FirstScoreMember(text) ==
    text[CHOOSE i \in 1..Len(text) :
            /\ text[i].t = "kv" /\ text[i].key = "score" /\ text[i].val.k = "int"
            /\ \A j \in 1..i - 1 :
                  ~(text[j].t = "kv" /\ text[j].key = "score" /\ text[j].val.k = "int")].val

\* C10 as stated: a reply holding either form of the score is evaluated with
\* an integer score, and only a reply holding neither form fails.
C10_BothFormsAccepted ==
    \A r \in Reqs :
        EvaluationRead(r) =>
            /\ HasScoreMember(ReplyText(r)) \/ HasFreeTextScore(ReplyText(r))
                  => resp[r].status = 200 /\ resp[r].score.k = "int"
            /\ resp[r].status # 200
                  => ~HasScoreMember(ReplyText(r)) /\ ~HasFreeTextScore(ReplyText(r))

\* C10 amended: the score is read in the JSON form only, and only from a reply
\* in which a JSON object is found and parsed: it is the object's "score"
\* field when that is not null, else the integer n of the first  "score": n
\* of the reply text; a reply with neither fails, whether or not it holds the
\* free text  Score: n/10.
C10_JsonFormOnly ==
    \A r \in Reqs :
        EvaluationRead(r) =>
            LET text == ReplyText(r)
                group == json_search(text)
                parsed == group # NoMatch /\ json_valid(group)
                field == json_get(group, "score")
                hasField == parsed /\ field.k \notin {"missing", "null"}
            IN  /\ resp[r].status = 200 <=>
                        parsed /\ (hasField \/ HasScoreMember(text))
                /\ resp[r].status = 200 =>
                        resp[r].score = IF hasField THEN field ELSE FirstScoreMember(text)
                /\ resp[r].status # 200 => resp[r].kind = "error"
                /\ text = <<LB, KV("score", IntVal(8)), RB>> => resp[r].score = IntVal(8)

\* a parsed object without score, followed by  Score: 8/10 : no score is found
C10_Witness ==
    \E r \in Reqs :
        /\ EvaluationRead(r)
        /\ ReplyText(r) = <<LB, KV("evaluation", StrVal), RB, FT(8)>>
        /\ resp[r].status # 200 /\ resp[r].kind = "error"

(* ---- C11 ---- *)
\* the question-generation call of r returned the model reply ReplyText(r)
QuestionsRead(r) ==
    Done(r) /\ Endpoint(r, "questions") /\ LastCall(r, "questions") /\ ReplyRead(r)

\* no JSON object is found in the reply, or the one found does not parse
NoJsonObject(text) == json_search(text) = NoMatch \/ ~json_valid(json_search(text))

\* C11 as stated: a reply of exactly 10 numbered lines and no JSON object
\* yields 200 with lines 1-5 as short_questions and lines 6-10 as
\* descriptive_questions, in their order.
C11_NumberedLinesFallback ==
    \A r \in Reqs :
        QuestionsRead(r) /\ ReplyText(r) = <<LINE>> =>
            /\ resp[r].status = 200
            /\ resp[r].short = [i \in 1..5 |-> <<"line", i>>]
            /\ resp[r].desc = [i \in 1..5 |-> <<"line", i + 5>>]

\* C11 amended: there is no fallback to numbered lines: a reply in which no
\* JSON object is found, or whose JSON object does not parse, fails with 502
\* and no question lists, whatever numbered lines it holds.
C11_NoJsonObjectIs502 ==
    \A r \in Reqs :
        QuestionsRead(r) /\ NoJsonObject(ReplyText(r)) =>
            /\ resp[r].status = 502
            /\ resp[r].kind = "error"
            /\ resp[r].short = <<>> /\ resp[r].desc = <<>>

\* ten numbered lines and nothing else
C11_Witness ==
    \E r \in Reqs :
        QuestionsRead(r) /\ ReplyText(r) = <<LINE>> /\ resp[r].status = 502

CallPlan(rq) ==
    IF rq.ep = "article" THEN <<"article">>
    ELSE IF rq.ep = "questions"
    THEN IF rq.ctype = "multipart" /\ rq.file.present /\ rq.file.name # EmptyName
         THEN <<"image", "questions">> ELSE <<"questions">>
    ELSE IF rq.ep = "evaluate" THEN <<"image", "image", "evaluation">>
    ELSE <<>>

\* C13: no upstream call is retried and a failure stops the request: the
\* calls issued for a request are its upstream steps in order, each at most
\* once (at most 1 for /generate-article, 2 for /generate-questions, 3 for
\* /evaluate-answer), every call before the last one succeeded, and a request
\* answered with an error after its last step has issued no further call.
C13_NoRetry ==
    \A r \in Reqs :
        /\ Len(calls[r]) <= Len(CallPlan(req[r]))
        /\ Len(CallPlan(req[r])) <= 3
        /\ \A i \in 1..Len(calls[r]) : calls[r][i].kind = CallPlan(req[r])[i]
        /\ \A i \in 1..Len(calls[r]) - 1 : calls[r][i].result = "ok"
        /\ calls[r] # <<>> /\ calls[r][Len(calls[r])].result # "ok"
              => pc[r] \in {"done", "ea_remove_q", "ea_remove_a"}

\* the extraction of the question text failed: one call, answered 502
C13_Witness ==
    \E r \in Reqs :
        /\ Done(r) /\ Endpoint(r, "evaluate")
        /\ Len(calls[r]) = 1 /\ calls[r][1].result = "status"
        /\ resp[r].status = 502

(* ---- C14 ---- *)
\* the paths that r saved a file to
SavedPaths(r) == {fsops[r][i].path : i \in {j \in 1..Len(fsops[r]) : fsops[r][j].op = "save"}}

\* C14: every file the handler saved into the upload folder has been deleted
\* by the time the response is returned, on the success path and on every
\* error path.
C14_UploadsRemovedAtResponse ==
    \A r \in Reqs : Done(r) => \A p \in SavedPaths(r) : disk[p] = 0

(* ---- C15 ---- *)
\* what r encodes of a file whose content is its own
OwnEncoded(r) ==
    IF req[r].ep = "questions" THEN {b64encode(req[r].file.bytes)}
    ELSE {b64encode(req[r].qfile.bytes), b64encode(req[r].afile.bytes)}

\* r was answered 500 although no upstream call of r failed and its last
\* call was not the generation or evaluation call: a step on the upload
\* folder failed
FailedOnUploadFolder(r) ==
    /\ Done(r) /\ resp[r].status = 500 /\ fsops[r] # <<>>
    /\ \/ calls[r] = <<>>
       \/ /\ calls[r][Len(calls[r])].kind = "image"
          /\ calls[r][Len(calls[r])].result = "ok"

\* C15: for any interleaving of concurrent file-upload requests, also with
\* the same sanitized filename, the bytes each request base64-encodes and
\* sends upstream are the bytes of its own upload, and no request fails
\* because of another request's save or delete.
C15_UploadsIsolated ==
    \A r \in Reqs :
        /\ \A i \in 1..Len(calls[r]) :
              calls[r][i].kind = "image" => calls[r][i].image \in OwnEncoded(r)
        /\ ~FailedOnUploadFolder(r)

(* ---- C16 ---- *)
\* C16: a request answered with 400 has issued no upstream call and has left
\* the upload folder as it was: nothing written, nothing removed.
C16_BadRequestHasNoEffect ==
    \A r \in Reqs :
        Done(r) /\ resp[r].status = 400
            => /\ calls[r] = <<>>
               /\ fsops[r] = <<>>
               /\ \A p \in Paths : disk[p] = 0

====
